---------------------------- MODULE Spec2Model ----------------------------
(***************************************************************************)
(* Model of the autonomous weather sensor agent (sensor_mqtt.py: Sensor)   *)
(* and of its brain (sensor_intelligence.py: SensorBrain).                 *)
(*                                                                         *)
(* Two threads share the Sensor object: the main thread runs connect()     *)
(* and run() (the publisher, variable pc) and the MQTT network thread runs *)
(* the callbacks on_connect, on_message and on_disconnect (the dispatcher, *)
(* variable dpc).  There is no lock; every action below is one step of one *)
(* of the two threads.                                                     *)
(*                                                                         *)
(* Units.  Risks are in thousandths (0.6 is 600), sensitivity is in        *)
(* hundredths (1.0 is 100), risk factors are in tenths (0.4 is 4), so that *)
(* factor * sensitivity is a risk in thousandths.  Temperature and         *)
(* pressure are in tenths of a degree / of a hPa (presets.py rounds them   *)
(* to one decimal), humidity in whole percent.                             *)
(*                                                                         *)
(* A JSON value read from a payload is a record [tag, v]: a number v       *)
(* (tag "num"), a value that is no number such as a string, null or a list *)
(* (tag "bad"), or a key the payload lacks (tag "absent").  A string field *)
(* the payload lacks is Absent.  Python's None, as a dictionary key or as  *)
(* the sector, is the string NoneVal.                                      *)
(***************************************************************************)
EXTENDS Integers, Sequences, FiniteSets, TLC

\* ------------------------------------------------------------------ bounds
MaxTicks == 2
MaxMsgs == 2
\* the messages of the monitor that teaches (SpecTeach)
MaxLearnMsgs == 3
\* the brain alone: add_measurement calls in a long run of samples, in a run
\* mixed with the other calls, and the feedback counted by the two counters
MaxAdds == 11
MaxBrainAdds == 3
MaxRiskAdds == 3
MaxRiskFeedback == 2
\* the calls of the belief handler (SpecPace)
MaxBeliefCalls == 3
\* the calls of on_message (SpecRoute)
MaxRouted == 3
MaxFeedback == 6

\* ------------------------------------------------------- program constants
RiskThreshold == 600
ConsensusThreshold == 400
HistorySize == 10
DefaultInterval == 5
AssignTimeoutPolls == 60
MinSensitivity == 50
MaxSensitivity == 150
InitSensitivity == 100

NoneVal == "None"
SensorType == "meteo"
OwnId == "meteo-1-100"
NeighborIds == {"meteo-2-200", "meteo-3-300"}
\* two of SITES: the sites the command line accepts and the sectors the
\* monitor assigns
Sectors == {"sector1", "sector2"}
Pending == "pending"

Absent == "<absent>"

JNum(x) == [tag |-> "num", v |-> x]
JBad == [tag |-> "bad", v |-> 0]
JAbsent == [tag |-> "absent", v |-> 0]

\* sample_measurements: the samples the publisher draws, within MEASURE_RANGES;
\* a cold and humid one, for which the risk factors sum to 0.6
Samples ==
    { [temperature_c |-> -120, pressure_hpa |-> 10000, humidity_pct |-> 85] }

\* ------------------------------------------------------------------ topics
data_topic(s, t, i) == <<"weather", "data", s, t, i>>
status_topic(s, t, i) == <<"weather", "status", s, t, i>>
belief_topic(s, t, i) == <<"weather", "belief", s, t, i>>
belief_site_topic(s, t) == <<"weather", "belief", s, t, "+">>
alert_topic(s, t, i) == <<"weather", "alert", s, t, i>>
feedback_topic(s, t, i) == <<"weather", "feedback", s, t, i>>
ctrl_one_topic(s, t, i) == <<"weather", "control", s, t, i>>
ctrl_group_topic(s, t) == <<"weather", "control", s, t, "all">>
reject_topic(i) == <<"weather", "reject", i>>
assign_sector_topic(i) == <<"weather", "assign", i>>

\* the broker delivers a message to a subscriber whose filter matches its topic
TopicMatches(filter, topic) ==
    /\ Len(filter) = Len(topic)
    /\ \A k \in 1..Len(filter) : filter[k] = "+" \/ filter[k] = topic[k]

\* "/marker/" in topic: the marker is a segment with a segment on each side
TopicContains(topic, marker) ==
    \E k \in 2..(Len(topic) - 1) : topic[k] = marker

\* ------------------------------------------------------------- SensorBrain
Min(a, b) == IF a < b THEN a ELSE b
Max(a, b) == IF a > b THEN a ELSE b

\* a window that, when full, evicts the newest sample instead of the oldest
DequeAppend_evict_newest(h, x) ==
    IF Len(h) >= HistorySize THEN Append(SubSeq(h, 1, Len(h) - 1), x)
    ELSE Append(h, x)

\* deque(maxlen = history_size).append
DequeAppend(h, x) ==
    IF Len(h) >= HistorySize THEN Append(Tail(h), x) ELSE Append(h, x)

\* detect_pressure_drop taking a drop of exactly 5 hPa for a rapid one
detect_pressure_drop_inclusive(ph) ==
    IF Len(ph) < 3 THEN FALSE
    ELSE ph[Len(ph) - 2] - ph[Len(ph)] >= 50

detect_pressure_drop(ph) ==
    IF Len(ph) < 3 THEN FALSE
    ELSE ph[Len(ph) - 2] - ph[Len(ph)] > 50

detect_high_humidity_low_temp(th, hh) ==
    IF Len(th) = 0 \/ Len(hh) = 0 THEN FALSE
    ELSE th[Len(th)] < 20 /\ hh[Len(hh)] > 80

detect_extreme_values(th, ph) ==
    IF Len(th) = 0 \/ Len(ph) = 0 THEN FALSE
    ELSE \/ th[Len(th)] < -100
         \/ th[Len(th)] > 350
         \/ ph[Len(ph)] < 9700

\* the sum of the factors, in tenths
RawRisk(th, ph, hh) ==
    (IF detect_pressure_drop(ph) THEN 4 ELSE 0)
    + (IF detect_high_humidity_low_temp(th, hh) THEN 3 ELSE 0)
    + (IF detect_extreme_values(th, ph) THEN 3 ELSE 0)

\* calculate_local_risk without the cap min(1.0, ...)
calculate_local_risk_uncapped(th, ph, hh, sens, old) ==
    IF Len(th) < 2 THEN [ret |-> 0, stored |-> old]
    ELSE LET risk == RawRisk(th, ph, hh) * sens
         IN  [ret |-> risk, stored |-> risk]

\* calculate_local_risk leaving out the sensitivity multiplier
calculate_local_risk_no_sensitivity(th, ph, hh, sens, old) ==
    IF Len(th) < 2 THEN [ret |-> 0, stored |-> old]
    ELSE LET risk == Min(1000, RawRisk(th, ph, hh) * 100)
         IN  [ret |-> risk, stored |-> risk]

\* calculate_local_risk: [ret |-> the value returned, stored |-> the new
\* self.local_risk]; with fewer than 2 samples it returns 0 and stores nothing
calculate_local_risk(th, ph, hh, sens, old) ==
    IF Len(th) < 2 THEN [ret |-> 0, stored |-> old]
    ELSE LET risk == Min(1000, RawRisk(th, ph, hh) * sens)
         IN  [ret |-> risk, stored |-> risk]

\* The risk is a double. The model keeps its value rounded to thousandths,
\* which is exact for the product of the factors (tenths) and the nominal
\* sensitivity (hundredths), and for the value publish_data holds it keeps
\* err as well, the sign of the double minus that rounding: sensitivity moves
\* by 0.1 and 0.05, which are no binary fractions, so that after two
\* missed_event it is 1.2000000000000002 and 0.6 * sensitivity is
\* 0.7200000000000001. A sensitivity reached from 1.0 by at most
\* ExactSteps adjustments has one value as a double whatever the path, and
\* the two tables list the pairs <<factors, sensitivity>> whose capped
\* product lies above, or below, its rounding; every other pair is exact.
ExactSteps == 3

ErrAbove ==
    {<<3, 70>>, <<3, 95>>, <<3, 115>>, <<3, 120>>, <<3, 130>>,
     <<4, 80>>, <<4, 85>>, <<4, 90>>, <<4, 95>>, <<4, 105>>, <<4, 110>>,
     <<4, 115>>, <<4, 120>>, <<4, 130>>,
     <<6, 70>>, <<6, 95>>, <<6, 115>>, <<6, 120>>, <<6, 130>>,
     <<7, 120>>, <<7, 130>>,
     <<10, 70>>, <<10, 85>>, <<10, 95>>}

ErrBelow == {<<7, 80>>}

\* the signs err can take for min(1.0, risk * self.sensitivity), steps being
\* a bound on the adjustments made to the sensitivity since it was 1.0; on a
\* longer path the double depends on the path, and the sign is any that the
\* cap allows
FloatErr(raw, sens, steps) ==
    IF raw = 0 THEN {0}
    ELSE IF steps <= ExactSteps
    THEN IF <<raw, sens>> \in ErrAbove THEN {1}
         ELSE IF <<raw, sens>> \in ErrBelow THEN {-1}
         ELSE {0}
    ELSE IF raw * sens >= 1000 THEN {-1, 0} ELSE {-1, 0, 1}

\* round(x, 3) of a risk: the value in thousandths, with no error left
round3(x) == [v |-> x.v, err |-> 0]

\* update_neighbor_belief: the upsert into the table
update_neighbor_belief(nb, id, risk) ==
    [k \in (DOMAIN nb) \cup {id} |-> IF k = id THEN risk ELSE nb[k]]

RECURSIVE SumRisk(_, _)
SumRisk(nb, keys) ==
    IF keys = {} THEN 0
    ELSE LET k == CHOOSE x \in keys : TRUE
         IN  nb[k].v + SumRisk(nb, keys \ {k})

\* get_neighbors_average_risk: None for an empty table; statistics.mean raises
\* TypeError on a value that is no number; otherwise the mean sum / n
get_neighbors_average_risk(nb) ==
    IF DOMAIN nb = {} THEN [tag |-> "None", sum |-> 0, n |-> 0]
    ELSE IF \E k \in DOMAIN nb : nb[k].tag # "num"
         THEN [tag |-> "TypeError", sum |-> 0, n |-> 0]
         ELSE [tag |-> "mean", sum |-> SumRisk(nb, DOMAIN nb),
               n |-> Cardinality(DOMAIN nb)]

\* should_alert without its first check: the neighbours alone decide
should_alert_no_local_check(lr, nb) ==
    LET avg == get_neighbors_average_risk(nb)
    IN  IF avg.tag = "None" THEN "True"
        ELSE IF avg.tag = "TypeError" THEN "TypeError"
        ELSE IF avg.sum >= ConsensusThreshold * avg.n THEN "True"
        ELSE "False"

\* should_alert with a strict consensus test (neighbor_avg > 0.4)
should_alert_strict(lr, nb) ==
    IF lr < RiskThreshold THEN "False"
    ELSE LET avg == get_neighbors_average_risk(nb)
         IN  IF avg.tag = "None" THEN "True"
             ELSE IF avg.tag = "TypeError" THEN "TypeError"
             ELSE IF avg.sum > ConsensusThreshold * avg.n THEN "True"
             ELSE "False"

\* should_alert: "True", "False", or "TypeError" when the mean raises
should_alert(lr, nb) ==
    IF lr < RiskThreshold THEN "False"
    ELSE LET avg == get_neighbors_average_risk(nb)
         IN  IF avg.tag = "None" THEN "True"
             ELSE IF avg.tag = "TypeError" THEN "TypeError"
             ELSE IF avg.sum >= ConsensusThreshold * avg.n THEN "True"
             ELSE "False"

\* calculate_adaptive_interval: int(base * 1.5) is (3 * base) \div 2 for base >= 0
calculate_adaptive_interval(count, base) ==
    IF count <= 2 THEN base
    ELSE IF count <= 5 THEN (3 * base) \div 2
    ELSE 2 * base

\* process_feedback without the clamps max(0.5, ...) and min(1.5, ...)
process_feedback_unclamped(kind, sens, fa, me) ==
    IF kind = "false_alarm"
    THEN [sensitivity |-> sens - 10,
          false_alarm_count |-> fa + 1, missed_event_count |-> me]
    ELSE IF kind = "missed_event"
    THEN [sensitivity |-> sens + 10,
          false_alarm_count |-> fa, missed_event_count |-> me + 1]
    ELSE IF kind = "correct"
    THEN [sensitivity |-> IF sens < 100 THEN Min(100, sens + 5)
                          ELSE IF sens > 100 THEN Max(100, sens - 5)
                          ELSE sens,
          false_alarm_count |-> fa, missed_event_count |-> me]
    ELSE [sensitivity |-> sens, false_alarm_count |-> fa,
          missed_event_count |-> me]

\* process_feedback where a correct prediction takes back one false alarm
process_feedback_forgiving(kind, sens, fa, me) ==
    IF kind = "false_alarm"
    THEN [sensitivity |-> Max(MinSensitivity, sens - 10),
          false_alarm_count |-> fa + 1, missed_event_count |-> me]
    ELSE IF kind = "missed_event"
    THEN [sensitivity |-> Min(MaxSensitivity, sens + 10),
          false_alarm_count |-> fa, missed_event_count |-> me + 1]
    ELSE IF kind = "correct"
    THEN [sensitivity |-> IF sens < 100 THEN Min(100, sens + 5)
                          ELSE IF sens > 100 THEN Max(100, sens - 5)
                          ELSE sens,
          false_alarm_count |-> Max(0, fa - 1), missed_event_count |-> me]
    ELSE [sensitivity |-> sens, false_alarm_count |-> fa,
          missed_event_count |-> me]

\* process_feedback where a false alarm lowers the sensitivity by 0.05
process_feedback_half_step(kind, sens, fa, me) ==
    IF kind = "false_alarm"
    THEN [sensitivity |-> Max(MinSensitivity, sens - 5),
          false_alarm_count |-> fa + 1, missed_event_count |-> me]
    ELSE IF kind = "missed_event"
    THEN [sensitivity |-> Min(MaxSensitivity, sens + 10),
          false_alarm_count |-> fa, missed_event_count |-> me + 1]
    ELSE IF kind = "correct"
    THEN [sensitivity |-> IF sens < 100 THEN Min(100, sens + 5)
                          ELSE IF sens > 100 THEN Max(100, sens - 5)
                          ELSE sens,
          false_alarm_count |-> fa, missed_event_count |-> me]
    ELSE [sensitivity |-> sens, false_alarm_count |-> fa,
          missed_event_count |-> me]

\* process_feedback where a correct prediction moves the sensitivity by 0.05
\* without the clamp at 1.0
process_feedback_overshoot(kind, sens, fa, me) ==
    IF kind = "false_alarm"
    THEN [sensitivity |-> Max(MinSensitivity, sens - 10),
          false_alarm_count |-> fa + 1, missed_event_count |-> me]
    ELSE IF kind = "missed_event"
    THEN [sensitivity |-> Min(MaxSensitivity, sens + 10),
          false_alarm_count |-> fa, missed_event_count |-> me + 1]
    ELSE IF kind = "correct"
    THEN [sensitivity |-> IF sens < 100 THEN sens + 5
                          ELSE IF sens > 100 THEN sens - 5
                          ELSE sens,
          false_alarm_count |-> fa, missed_event_count |-> me]
    ELSE [sensitivity |-> sens, false_alarm_count |-> fa,
          missed_event_count |-> me]

\* process_feedback: the new [sensitivity, false_alarm_count, missed_event_count]
process_feedback(kind, sens, fa, me) ==
    IF kind = "false_alarm"
    THEN [sensitivity |-> Max(MinSensitivity, sens - 10),
          false_alarm_count |-> fa + 1, missed_event_count |-> me]
    ELSE IF kind = "missed_event"
    THEN [sensitivity |-> Min(MaxSensitivity, sens + 10),
          false_alarm_count |-> fa, missed_event_count |-> me + 1]
    ELSE IF kind = "correct"
    THEN [sensitivity |-> IF sens < 100 THEN Min(100, sens + 5)
                          ELSE IF sens > 100 THEN Max(100, sens - 5)
                          ELSE sens,
          false_alarm_count |-> fa, missed_event_count |-> me]
    ELSE [sensitivity |-> sens, false_alarm_count |-> fa,
          missed_event_count |-> me]

\* get_belief_summary raises when the table holds a value that is no number
\* (round(mean(...), 3) is evaluated whenever the table is not empty)
belief_summary_raises(nb) ==
    get_neighbors_average_risk(nb).tag = "TypeError"

\* ------------------------------------------------------------------- state
VARIABLES
    \* Sensor
    site, sector_assigned, is_connected, running, publish_interval,
    \* SensorBrain
    temp_history, pressure_history, humidity_history, neighbor_beliefs,
    local_risk, sensitivity, false_alarm_count, missed_event_count,
    active_neighbors_count, base_interval,
    \* every sample given to add_measurement so far, in order
    sampled,
    \* the MQTT client: its subscriptions, its last will, the session
    \* ("init", "connecting", "refused", "open", "closing", "closed") and the
    \* network loop thread ("none", "running", "stopped")
    subscriptions, will, session, loop,
    \* the main thread: where it is, the polls of the assignment wait, the
    \* ticks completed, publish_data's local variable local_risk (a record
    \* [v, err], see FloatErr)
    pc, elapsed, ticks, tick_risk,
    \* the network thread: where it is, the number of messages delivered so
    \* far, and the class of the latest one (see MsgClass)
    dpc, msgs, last_msg,
    \* every client.publish call so far, in order
    published

agentVars == <<site, sector_assigned, is_connected, running, publish_interval>>
windowVars == <<temp_history, pressure_history, humidity_history, sampled>>
learnVars == <<sensitivity, false_alarm_count, missed_event_count>>
brainVars == <<windowVars, neighbor_beliefs, local_risk, learnVars,
               active_neighbors_count, base_interval>>
clientVars == <<subscriptions, will, session, loop>>
mainVars == <<pc, elapsed, ticks, tick_risk>>
dispVars == <<dpc, msgs, last_msg>>
vars == <<agentVars, brainVars, clientVars, mainVars, dispVars, published>>

Terminated == {"done", "crashed"}

\* one client.publish call: the topic, for a presence message its status,
\* sector and reason fields, for a belief its would_alert and local_risk, for an
\* alert its risk_level, and the tick that made it (0 outside the ticks)
\* a risk that is exactly v thousandths
Exact(v) == [v |-> v, err |-> 0]

Pub(topic, status, sector, reason, would_alert, risk, tick) ==
    [topic |-> topic, status |-> status, sector |-> sector, reason |-> reason,
     would_alert |-> would_alert, risk |-> risk.v, err |-> risk.err,
     tick |-> tick]

Kind(p) == p.topic[2]
Telemetry == {"data", "belief", "alert"}

\* ---------------------------------------------------------------- messages
Blank ==
    [topic |-> <<>>, json |-> TRUE, reason |-> Absent, sector |-> Absent,
     sensor_id |-> Absent, local_risk |-> JAbsent, type |-> Absent,
     command |-> Absent, interval |-> JAbsent]

RejectMsgs ==
    { [Blank EXCEPT !.topic = reject_topic(OwnId), !.reason = "quota"],
      [Blank EXCEPT !.topic = reject_topic(OwnId)],
      [Blank EXCEPT !.topic = reject_topic(OwnId), !.json = FALSE] }

AssignMsgs ==
    { [Blank EXCEPT !.topic = assign_sector_topic(OwnId), !.sector = s] :
        s \in Sectors \cup {Absent, ""} }
    \cup { [Blank EXCEPT !.topic = assign_sector_topic(OwnId), !.json = FALSE] }

\* beliefs of two neighbours, the agent's own belief echoed by the sector-wide
\* subscription, a belief without sensor_id, and a payload that is no JSON
BeliefMsgs ==
    { [Blank EXCEPT !.topic = belief_topic(s, SensorType, i),
                    !.sensor_id = i, !.local_risk = r] :
        s \in Sectors, i \in NeighborIds, r \in {JNum(100), JNum(400)} }
    \cup { [Blank EXCEPT !.topic = belief_topic(s, SensorType, "meteo-2-200"),
                         !.sensor_id = "meteo-2-200", !.local_risk = JBad] :
        s \in Sectors }
    \cup { [Blank EXCEPT !.topic = belief_topic(s, SensorType, "meteo-3-300"),
                         !.sensor_id = "meteo-3-300"] :
        s \in Sectors }
    \cup { [Blank EXCEPT !.topic = belief_topic(s, SensorType, OwnId),
                         !.sensor_id = OwnId, !.local_risk = JNum(400)] :
        s \in Sectors }
    \cup { [Blank EXCEPT !.topic = belief_topic(s, SensorType, "meteo-4-400"),
                         !.local_risk = JNum(400)] :
        s \in Sectors }
    \cup { [Blank EXCEPT !.topic = belief_topic(s, SensorType, "meteo-4-400"),
                         !.json = FALSE] :
        s \in Sectors }

FeedbackMsgs ==
    { [Blank EXCEPT !.topic = feedback_topic(s, SensorType, OwnId), !.type = t] :
        s \in Sectors, t \in {"false_alarm", "missed_event", "correct", Absent} }
    \cup { [Blank EXCEPT !.topic = feedback_topic(s, SensorType, OwnId),
                         !.json = FALSE] :
        s \in Sectors }

ControlTopics ==
    { ctrl_one_topic(s, SensorType, OwnId) : s \in Sectors }
    \cup { ctrl_group_topic(s, SensorType) : s \in Sectors }

ControlMsgs ==
    { [Blank EXCEPT !.topic = t, !.command = "adjust_interval", !.interval = v] :
        t \in ControlTopics, v \in {JNum(2), JBad, JAbsent} }
    \cup { [Blank EXCEPT !.topic = t, !.command = c] :
        t \in ControlTopics, c \in {"reset_learning", "SHUTDOWN", Absent} }
    \cup { [Blank EXCEPT !.topic = t, !.json = FALSE] : t \in ControlTopics }

Messages == RejectMsgs \cup AssignMsgs \cup BeliefMsgs \cup FeedbackMsgs
            \cup ControlMsgs

\* a payload that is not valid JSON, or that lacks the field its handler reads
\* first (reason, sector, sensor_id or local_risk, type, command)
Malformed(m) ==
    \/ ~m.json
    \/ TopicContains(m.topic, "reject") /\ m.reason = Absent
    \/ TopicContains(m.topic, "assign") /\ m.sector \in {Absent, ""}
    \/ TopicContains(m.topic, "belief")
         /\ (m.sensor_id = Absent \/ m.local_risk = JAbsent)
    \/ TopicContains(m.topic, "feedback") /\ m.type = Absent
    \/ TopicContains(m.topic, "control") /\ m.command = Absent

\* ------------------------------------------------------------ construction
EmptyTable == [k \in {} |-> JNum(0)]

NoWill == [topic |-> <<>>, status |-> Absent, sector |-> Absent,
           reason |-> Absent, retain |-> FALSE]

\* Sensor.__init__ and SensorBrain.__init__; the site given on the command line
\* is one of SITES, or None
Init ==
    /\ site \in {NoneVal} \cup {"sector1"}
    /\ sector_assigned = FALSE
    /\ is_connected = FALSE
    /\ running = TRUE
    /\ publish_interval = JNum(DefaultInterval)
    /\ temp_history = <<>>
    /\ pressure_history = <<>>
    /\ humidity_history = <<>>
    /\ sampled = <<>>
    /\ neighbor_beliefs = EmptyTable
    /\ local_risk = 0
    /\ sensitivity = InitSensitivity
    /\ false_alarm_count = 0
    /\ missed_event_count = 0
    /\ active_neighbors_count = 0
    /\ base_interval = DefaultInterval
    /\ subscriptions = {}
    /\ will = NoWill
    /\ session = "init"
    /\ loop = "none"
    /\ pc = "connect"
    /\ elapsed = 0
    /\ ticks = 0
    /\ tick_risk = Exact(0)
    /\ dpc = "idle"
    /\ msgs = 0
    /\ last_msg = <<"none", "ok">>
    /\ published = <<>>

\* ------------------------------------------------------- Sensor.disconnect
\* publishes the offline presence on the status topic of self.site (None when
\* no sector is known), stops the network loop and closes the session; there
\* is no guard on a previous call
disconnect ==
    /\ published' = Append(published,
           Pub(status_topic(site, SensorType, OwnId), "offline", site, Absent,
               Absent, Exact(0), 0))
    /\ loop' = "stopped"
    /\ session' = IF session = "open" THEN "closing" ELSE session
    /\ UNCHANGED <<subscriptions, will>>

\* ---------------------------------------------------- main thread: connect
\* connect() leaving out will_set
WillSet_skipped ==
    /\ pc = "connect"
    /\ pc' = "connect_open"
    /\ UNCHANGED <<agentVars, brainVars, clientVars, elapsed, ticks, tick_risk,
                   dispVars, published>>

\* connect(): lwt_site = self.site or "pending"; client.will_set(...)
WillSet ==
    /\ pc = "connect"
    /\ will' = [topic |-> status_topic(IF site # NoneVal THEN site ELSE Pending,
                                       SensorType, OwnId),
                status |-> "offline",
                sector |-> IF site # NoneVal THEN site ELSE Pending,
                reason |-> "connection_lost", retain |-> TRUE]
    /\ pc' = "connect_open"
    /\ UNCHANGED <<agentVars, brainVars, subscriptions, session, loop, elapsed,
                   ticks, tick_risk, dispVars, published>>

\* connect(): client.connect, loop_start
Connect ==
    /\ pc = "connect_open"
    /\ session' = "connecting"
    /\ loop' = "running"
    /\ pc' = "connect_wait"
    /\ UNCHANGED <<agentVars, brainVars, subscriptions, will, elapsed, ticks,
                   tick_risk, dispVars, published>>

\* the wait loop of connect() ends with is_connected set
ConnectReady ==
    /\ pc = "connect_wait"
    /\ is_connected
    /\ pc' = "run"
    /\ UNCHANGED <<agentVars, brainVars, clientVars, elapsed, ticks, tick_risk,
                   dispVars, published>>

\* the 5 s pass without is_connected: ConnectionError is raised and re-raised;
\* neither loop_stop nor client.disconnect is called
ConnectTimeout ==
    /\ pc = "connect_wait"
    /\ ~is_connected
    /\ pc' = "crashed"
    /\ UNCHANGED <<agentVars, brainVars, clientVars, elapsed, ticks, tick_risk,
                   dispVars, published>>

\* -------------------------------------------------------- main thread: run
RunStart ==
    /\ pc = "run"
    /\ publish_interval' = JNum(DefaultInterval)
    /\ base_interval' = DefaultInterval
    /\ pc' = IF site = NoneVal THEN "wait_assign" ELSE "loop"
    /\ UNCHANGED <<site, sector_assigned, is_connected, running, windowVars,
                   neighbor_beliefs, local_risk, learnVars,
                   active_neighbors_count, clientVars, elapsed, ticks,
                   tick_risk, dispVars, published>>

\* while not sector_assigned and running and elapsed < timeout: sleep(0.5)
WaitPoll ==
    /\ pc = "wait_assign"
    /\ ~sector_assigned /\ running /\ elapsed < AssignTimeoutPolls
    /\ elapsed' = elapsed + 1
    /\ UNCHANGED <<agentVars, brainVars, clientVars, pc, ticks, tick_risk,
                   dispVars, published>>

\* the loop ends; its counter, a local variable, is not read again
WaitExit ==
    /\ pc = "wait_assign"
    /\ ~(~sector_assigned /\ running /\ elapsed < AssignTimeoutPolls)
    /\ pc' = "wait_check"
    /\ elapsed' = 0
    /\ UNCHANGED <<agentVars, brainVars, clientVars, ticks, tick_risk,
                   dispVars, published>>

\* the timeout branch returning without the call of disconnect()
WaitCheck_no_disconnect ==
    /\ pc = "wait_check"
    /\ pc' = IF ~sector_assigned THEN "done" ELSE "loop"
    /\ UNCHANGED <<agentVars, brainVars, clientVars, elapsed, ticks, tick_risk,
                   dispVars, published>>

\* if not self.sector_assigned: self.disconnect(); return
WaitCheck ==
    /\ pc = "wait_check"
    /\ IF ~sector_assigned
       THEN disconnect /\ pc' = "done"
       ELSE pc' = "loop" /\ UNCHANGED <<clientVars, published>>
    /\ UNCHANGED <<agentVars, brainVars, elapsed, ticks, tick_risk, dispVars>>

\* while self.running: if self.sector_assigned or self.site: publish_data() ...
\* else: sleep(1)
LoopCheck ==
    /\ pc = "loop"
    /\ IF ~running THEN pc' = "finally"
       ELSE IF sector_assigned \/ site # NoneVal
            THEN ticks < MaxTicks /\ pc' = "tick"
            ELSE pc' = "loop"
    /\ UNCHANGED <<agentVars, brainVars, clientVars, elapsed, ticks, tick_risk,
                   dispVars, published>>

\* publish_data, steps 1 to 3: the is_connected guard, the sample,
\* add_measurement, calculate_local_risk
TickMeasure ==
    /\ pc = "tick"
    /\ IF ~is_connected
       THEN /\ pc' = "adapt"
            /\ UNCHANGED <<windowVars, local_risk, tick_risk>>
       ELSE \E m \in Samples :
              LET th == DequeAppend(temp_history, m.temperature_c)
                  ph == DequeAppend(pressure_history, m.pressure_hpa)
                  hh == DequeAppend(humidity_history, m.humidity_pct)
                  r == calculate_local_risk(th, ph, hh, sensitivity, local_risk)
                  raw == IF Len(th) < 2 THEN 0 ELSE RawRisk(th, ph, hh)
              IN  /\ temp_history' = th
                  /\ pressure_history' = ph
                  /\ humidity_history' = hh
                  /\ sampled' = Append(sampled, m)
                  /\ local_risk' = r.stored
                  /\ \E e \in FloatErr(raw, sensitivity, msgs) :
                       tick_risk' = [v |-> r.ret, err |-> e]
                  /\ pc' = "pub_data"
    /\ UNCHANGED <<agentVars, neighbor_beliefs, learnVars,
                   active_neighbors_count, base_interval, clientVars, elapsed,
                   ticks, dispVars, published>>

\* publish_data without its step 4: no telemetry is published
PublishData_skipped ==
    /\ pc = "pub_data"
    /\ pc' = "pub_belief"
    /\ UNCHANGED <<agentVars, brainVars, clientVars, elapsed, ticks, tick_risk,
                   dispVars, published>>

\* publish_data publishing on the site taken when connecting (the temp_site
\* of on_connect) instead of self.site
PublishData_connect_site ==
    /\ pc = "pub_data"
    /\ published' = Append(published,
           Pub(data_topic(will.sector, SensorType, OwnId), Absent, Absent,
               Absent, Absent, Exact(0), ticks + 1))
    /\ pc' = "pub_belief"
    /\ UNCHANGED <<agentVars, brainVars, clientVars, elapsed, ticks, tick_risk,
                   dispVars>>

\* publish_data, step 4: the telemetry
PublishData ==
    /\ pc = "pub_data"
    /\ published' = Append(published,
           Pub(data_topic(site, SensorType, OwnId), Absent, Absent, Absent,
               Absent, Exact(0), ticks + 1))
    /\ pc' = "pub_belief"
    /\ UNCHANGED <<agentVars, brainVars, clientVars, elapsed, ticks, tick_risk,
                   dispVars>>

\* publish_data, step 5: get_belief_summary (it calls should_alert) and the
\* belief; an exception leaves the loop through the finally clause
PublishBelief ==
    /\ pc = "pub_belief"
    /\ IF belief_summary_raises(neighbor_beliefs)
       THEN pc' = "finally_exc" /\ UNCHANGED published
       ELSE /\ published' = Append(published,
                   Pub(belief_topic(site, SensorType, OwnId), Absent, Absent,
                       Absent, should_alert(local_risk, neighbor_beliefs),
                       round3([v |-> local_risk, err |-> tick_risk.err]),
                       ticks + 1))
            /\ pc' = "pub_alert"
    /\ UNCHANGED <<agentVars, brainVars, clientVars, elapsed, ticks, tick_risk,
                   dispVars>>

\* publish_data, step 6: should_alert is evaluated again; the alert carries
\* the local variable local_risk
PublishAlert ==
    /\ pc = "pub_alert"
    /\ LET a == should_alert(local_risk, neighbor_beliefs)
       IN  IF a = "TypeError"
           THEN pc' = "finally_exc" /\ UNCHANGED published
           ELSE /\ pc' = "adapt"
                /\ published' =
                     IF a = "True"
                     THEN Append(published,
                            Pub(alert_topic(site, SensorType, OwnId), Absent,
                                Absent, Absent, Absent, tick_risk, ticks + 1))
                     ELSE published
    /\ UNCHANGED <<agentVars, brainVars, clientVars, elapsed, ticks, tick_risk,
                   dispVars>>

\* calculate_adaptive_interval(self.publish_interval) and time.sleep: both
\* need a number (and sleep a non-negative one), else the exception leaves
\* the loop through the finally clause
Adapt ==
    /\ pc = "adapt"
    /\ IF publish_interval.tag # "num"
          \/ calculate_adaptive_interval(active_neighbors_count,
                                         publish_interval.v) < 0
       THEN pc' = "finally_exc" /\ UNCHANGED ticks
       ELSE pc' = "loop" /\ ticks' = ticks + 1
    /\ UNCHANGED <<agentVars, brainVars, clientVars, elapsed, tick_risk,
                   dispVars, published>>

\* finally: self.disconnect(), after the loop ended or KeyboardInterrupt was
\* caught; run() returns
Finally ==
    /\ pc = "finally"
    /\ disconnect
    /\ pc' = "done"
    /\ UNCHANGED <<agentVars, brainVars, elapsed, ticks, tick_risk, dispVars>>

\* finally: self.disconnect(), then the exception propagates out of run()
FinallyExc ==
    /\ pc = "finally_exc"
    /\ disconnect
    /\ pc' = "crashed"
    /\ UNCHANGED <<agentVars, brainVars, elapsed, ticks, tick_risk, dispVars>>

\* KeyboardInterrupt, delivered while the main thread sleeps.  In the sleep of
\* the publishing loop, inside the try block of run(), it is caught and the
\* finally clause runs; in the sleep of the assignment wait, which is outside
\* the try block, it propagates out of run() and nothing else runs
Interrupt ==
    /\ pc \in {"loop", "wait_assign"}
    /\ pc' = IF pc = "loop" THEN "finally" ELSE "crashed"
    /\ UNCHANGED <<agentVars, brainVars, clientVars, elapsed, ticks, tick_risk,
                   dispVars, published>>

\* ------------------------------------------------ network thread: callbacks
\* the callbacks run one at a time, while the loop thread runs and the
\* process lives
DispatcherReady ==
    /\ loop = "running"
    /\ dpc = "idle"
    /\ pc \notin Terminated

\* on_connect that does not subscribe before it announces
OnConnect_no_subscribe ==
    /\ DispatcherReady
    /\ session = "connecting"
    /\ \E rc \in {0, 5} :
         IF rc = 0
         THEN is_connected' = TRUE /\ session' = "open" /\ dpc' = "on_connect"
         ELSE is_connected' = is_connected /\ session' = "refused" /\ dpc' = dpc
    /\ UNCHANGED <<site, sector_assigned, running, publish_interval, brainVars,
                   subscriptions, will, loop, mainVars, msgs, last_msg, published>>

\* on_connect, to the admission subscriptions: rc = 0 sets is_connected, which
\* releases the wait loop of connect(), and the client subscribes to its
\* rejection and assignment topics (no message is delivered before the
\* callback returns); any other rc is logged
OnConnect ==
    /\ DispatcherReady
    /\ session = "connecting"
    /\ \E rc \in {0, 5} :
         IF rc = 0
         THEN /\ is_connected' = TRUE
              /\ session' = "open"
              /\ dpc' = "on_connect"
              /\ subscriptions' = subscriptions
                   \cup {reject_topic(OwnId), assign_sector_topic(OwnId)}
         ELSE /\ is_connected' = is_connected
              /\ session' = "refused"
              /\ dpc' = dpc
              /\ subscriptions' = subscriptions
    /\ UNCHANGED <<site, sector_assigned, running, publish_interval, brainVars,
                   will, loop, mainVars, msgs, last_msg, published>>

\* on_connect, the rest: the online presence on the topic of self.site or
\* "pending", then the belief subscription when a site is already known
OnConnectAnnounce ==
    /\ dpc = "on_connect"
    /\ pc \notin Terminated
    /\ subscriptions' = subscriptions
         \cup (IF site # NoneVal THEN {belief_site_topic(site, SensorType)}
               ELSE {})
    /\ published' = Append(published,
           Pub(status_topic(IF site # NoneVal THEN site ELSE Pending,
                            SensorType, OwnId),
               "online", Absent, Absent, Absent, Exact(0), 0))
    /\ dpc' = "idle"
    /\ UNCHANGED <<agentVars, brainVars, will, session, loop, mainVars, msgs, last_msg>>

\* on_disconnect: the session closed by client.disconnect() is reported
OnDisconnect ==
    /\ session = "closing"
    /\ dpc = "idle"
    /\ pc \notin Terminated
    /\ is_connected' = FALSE
    /\ session' = "closed"
    /\ UNCHANGED <<site, sector_assigned, running, publish_interval, brainVars,
                   subscriptions, will, loop, mainVars, dispVars, published>>

\* _handle_rejection clearing running without calling disconnect()
handle_rejection_no_disconnect(m) ==
    /\ running' = FALSE
    /\ dpc' = "idle"
    /\ UNCHANGED <<site, sector_assigned, is_connected, publish_interval,
                   brainVars, clientVars>>

\* _handle_rejection: both the try block and the except clause clear running
\* and call disconnect()
handle_rejection(m) ==
    /\ IF m.json
       THEN running' = FALSE /\ dpc' = "disconnect"
       ELSE running' = FALSE /\ dpc' = "disconnect"
    /\ UNCHANGED <<site, sector_assigned, is_connected, publish_interval,
                   brainVars, clientVars>>

\* _handle_sector_assignment setting sector_assigned before it validates
\* the sector
handle_sector_assignment_unvalidated(m) ==
    /\ IF m.json /\ m.sector \notin {Absent, ""}
       THEN /\ site' = m.sector
            /\ sector_assigned' = TRUE
            /\ subscriptions' = subscriptions \cup
                 { ctrl_one_topic(m.sector, SensorType, OwnId),
                   ctrl_group_topic(m.sector, SensorType),
                   belief_site_topic(m.sector, SensorType),
                   feedback_topic(m.sector, SensorType, OwnId) }
       ELSE /\ sector_assigned' = m.json
            /\ UNCHANGED <<site, subscriptions>>
    /\ dpc' = "idle"
    /\ UNCHANGED <<is_connected, running, publish_interval, brainVars, will,
                   session, loop>>

\* _handle_sector_assignment without the subscription to the feedback topic
handle_sector_assignment_no_feedback(m) ==
    /\ IF m.json /\ m.sector \notin {Absent, ""}
       THEN /\ site' = m.sector
            /\ sector_assigned' = TRUE
            /\ subscriptions' = subscriptions \cup
                 { ctrl_one_topic(m.sector, SensorType, OwnId),
                   ctrl_group_topic(m.sector, SensorType),
                   belief_site_topic(m.sector, SensorType) }
       ELSE UNCHANGED <<site, sector_assigned, subscriptions>>
    /\ dpc' = "idle"
    /\ UNCHANGED <<is_connected, running, publish_interval, brainVars, will,
                   session, loop>>

\* _handle_sector_assignment: a missing or empty sector is logged
handle_sector_assignment(m) ==
    /\ IF m.json /\ m.sector \notin {Absent, ""}
       THEN /\ site' = m.sector
            /\ sector_assigned' = TRUE
            /\ subscriptions' = subscriptions \cup
                 { ctrl_one_topic(m.sector, SensorType, OwnId),
                   ctrl_group_topic(m.sector, SensorType),
                   belief_site_topic(m.sector, SensorType),
                   feedback_topic(m.sector, SensorType, OwnId) }
       ELSE UNCHANGED <<site, sector_assigned, subscriptions>>
    /\ dpc' = "idle"
    /\ UNCHANGED <<is_connected, running, publish_interval, brainVars, will,
                   session, loop>>

\* _handle_neighbor_belief without the test on the own id
handle_neighbor_belief_no_filter(m) ==
    LET neighbor_id == IF m.sensor_id = Absent THEN NoneVal ELSE m.sensor_id
        neighbor_risk == IF m.local_risk = JAbsent THEN JNum(0)
                         ELSE m.local_risk
    IN  /\ IF ~m.json
           THEN UNCHANGED neighbor_beliefs /\ dpc' = "idle"
           ELSE /\ neighbor_beliefs' = update_neighbor_belief(
                       neighbor_beliefs, neighbor_id, neighbor_risk)
                /\ dpc' = IF neighbor_risk.tag = "num" THEN "belief_count"
                          ELSE "idle"
        /\ UNCHANGED <<agentVars, windowVars, local_risk, learnVars,
                       active_neighbors_count, base_interval, clientVars>>

\* _handle_neighbor_belief up to brain.update_neighbor_belief: the own id is
\* skipped; a missing sensor_id is the key None, a missing local_risk is 0.0.
\* update_neighbor_belief stores the value and then formats it for the log,
\* which raises for a value that is no number: the count is then not updated
handle_neighbor_belief(m) ==
    LET neighbor_id == IF m.sensor_id = Absent THEN NoneVal ELSE m.sensor_id
        neighbor_risk == IF m.local_risk = JAbsent THEN JNum(0)
                         ELSE m.local_risk
    IN  /\ IF ~m.json \/ neighbor_id = OwnId
           THEN UNCHANGED neighbor_beliefs /\ dpc' = "idle"
           ELSE /\ neighbor_beliefs' = update_neighbor_belief(
                       neighbor_beliefs, neighbor_id, neighbor_risk)
                /\ dpc' = IF neighbor_risk.tag = "num" THEN "belief_count"
                          ELSE "idle"
        /\ UNCHANGED <<agentVars, windowVars, local_risk, learnVars,
                       active_neighbors_count, base_interval, clientVars>>

\* _handle_feedback: a missing type is process_feedback(None)
handle_feedback(m) ==
    /\ IF m.json
       THEN LET f == process_feedback(m.type, sensitivity, false_alarm_count,
                                      missed_event_count)
            IN  /\ sensitivity' = f.sensitivity
                /\ false_alarm_count' = f.false_alarm_count
                /\ missed_event_count' = f.missed_event_count
       ELSE UNCHANGED learnVars
    /\ dpc' = "idle"
    /\ UNCHANGED <<agentVars, windowVars, neighbor_beliefs, local_risk,
                   active_neighbors_count, base_interval, clientVars>>

\* _handle_control_command with the except clause of _handle_rejection: a
\* payload that does not parse shuts the agent down
handle_control_command_fatal(m) ==
    /\ IF m.json /\ m.command = "adjust_interval"
       THEN /\ publish_interval' = IF m.interval = JAbsent THEN publish_interval
                                   ELSE m.interval
            /\ dpc' = "idle"
            /\ UNCHANGED <<running, learnVars>>
       ELSE IF m.json /\ m.command = "reset_learning"
       THEN /\ sensitivity' = InitSensitivity
            /\ false_alarm_count' = 0
            /\ missed_event_count' = 0
            /\ dpc' = "idle"
            /\ UNCHANGED <<running, publish_interval>>
       ELSE IF ~m.json \/ m.command = "SHUTDOWN"
       THEN /\ running' = FALSE
            /\ dpc' = "disconnect"
            /\ UNCHANGED <<publish_interval, learnVars>>
       ELSE /\ dpc' = "idle"
            /\ UNCHANGED <<running, publish_interval, learnVars>>
    /\ UNCHANGED <<site, sector_assigned, is_connected, windowVars,
                   neighbor_beliefs, local_risk, active_neighbors_count,
                   base_interval, clientVars>>

\* _handle_control_command where reset_learning clears the stored risk too
handle_control_command_reset_risk(m) ==
    /\ IF m.json /\ m.command = "adjust_interval"
       THEN /\ publish_interval' = IF m.interval = JAbsent THEN publish_interval
                                   ELSE m.interval
            /\ dpc' = "idle"
            /\ UNCHANGED <<running, learnVars, local_risk>>
       ELSE IF m.json /\ m.command = "reset_learning"
       THEN /\ sensitivity' = InitSensitivity
            /\ false_alarm_count' = 0
            /\ missed_event_count' = 0
            /\ local_risk' = 0
            /\ dpc' = "idle"
            /\ UNCHANGED <<running, publish_interval>>
       ELSE IF m.json /\ m.command = "SHUTDOWN"
       THEN /\ running' = FALSE
            /\ dpc' = "disconnect"
            /\ UNCHANGED <<publish_interval, learnVars, local_risk>>
       ELSE /\ dpc' = "idle"
            /\ UNCHANGED <<running, publish_interval, learnVars, local_risk>>
    /\ UNCHANGED <<site, sector_assigned, is_connected, windowVars,
                   neighbor_beliefs, active_neighbors_count,
                   base_interval, clientVars>>

\* _handle_control_command
handle_control_command(m) ==
    /\ IF m.json /\ m.command = "adjust_interval"
       THEN /\ publish_interval' = IF m.interval = JAbsent THEN publish_interval
                                   ELSE m.interval
            /\ dpc' = "idle"
            /\ UNCHANGED <<running, learnVars>>
       ELSE IF m.json /\ m.command = "reset_learning"
       THEN /\ sensitivity' = InitSensitivity
            /\ false_alarm_count' = 0
            /\ missed_event_count' = 0
            /\ dpc' = "idle"
            /\ UNCHANGED <<running, publish_interval>>
       ELSE IF m.json /\ m.command = "SHUTDOWN"
       THEN /\ running' = FALSE
            /\ dpc' = "disconnect"
            /\ UNCHANGED <<publish_interval, learnVars>>
       ELSE /\ dpc' = "idle"
            /\ UNCHANGED <<running, publish_interval, learnVars>>
    /\ UNCHANGED <<site, sector_assigned, is_connected, windowVars,
                   neighbor_beliefs, local_risk, active_neighbors_count,
                   base_interval, clientVars>>

\* on_message testing the belief marker first
on_message_belief_first(m) ==
    IF TopicContains(m.topic, "belief") THEN handle_neighbor_belief(m)
    ELSE IF TopicContains(m.topic, "reject") THEN handle_rejection(m)
    ELSE IF TopicContains(m.topic, "assign") THEN handle_sector_assignment(m)
    ELSE IF TopicContains(m.topic, "feedback") THEN handle_feedback(m)
    ELSE IF TopicContains(m.topic, "control") THEN handle_control_command(m)
    ELSE dpc' = "idle" /\ UNCHANGED <<agentVars, brainVars, clientVars>>

\* on_message: the first marker found in the topic selects the handler
on_message(m) ==
    IF TopicContains(m.topic, "reject") THEN handle_rejection(m)
    ELSE IF TopicContains(m.topic, "assign") THEN handle_sector_assignment(m)
    ELSE IF TopicContains(m.topic, "belief") THEN handle_neighbor_belief(m)
    ELSE IF TopicContains(m.topic, "feedback") THEN handle_feedback(m)
    ELSE IF TopicContains(m.topic, "control") THEN handle_control_command(m)
    ELSE dpc' = "idle" /\ UNCHANGED <<agentVars, brainVars, clientVars>>

\* the broker delivers a message on a topic the client is subscribed to
Subscribed(m) ==
    /\ DispatcherReady
    /\ session = "open"
    /\ \E f \in subscriptions : TopicMatches(f, m.topic)

\* the class of a delivered message, kept in last_msg: the handler its topic
\* selects, and whether the payload is malformed, the agent's own belief, or
\* neither
HandlerOf(m) ==
    IF TopicContains(m.topic, "reject") THEN "reject"
    ELSE IF TopicContains(m.topic, "assign") THEN "assign"
    ELSE IF TopicContains(m.topic, "belief") THEN "belief"
    ELSE IF TopicContains(m.topic, "feedback") THEN "feedback"
    ELSE IF TopicContains(m.topic, "control") THEN "control"
    ELSE "none"

IsEcho(m) == HandlerOf(m) = "belief" /\ m.json /\ m.sensor_id = OwnId

MsgClass(m) ==
    <<HandlerOf(m),
      IF Malformed(m) THEN "malformed" ELSE IF IsEcho(m) THEN "echo" ELSE "ok">>

\* on_message runs for the message, which is one of the first limit messages
DispatchWithin(m, limit) ==
    /\ Subscribed(m)
    /\ msgs < limit
    /\ on_message(m)
    /\ msgs' = msgs + 1
    /\ last_msg' = MsgClass(m)
    /\ UNCHANGED <<mainVars, published>>

Dispatch(m) == DispatchWithin(m, MaxMsgs)

Deliver == \E m \in Messages : Dispatch(m)

\* _handle_neighbor_belief, after update_neighbor_belief returned:
\* self.brain.active_neighbors_count = len(self.brain.neighbor_beliefs)
BeliefCount ==
    /\ dpc = "belief_count"
    /\ pc \notin Terminated
    /\ active_neighbors_count' = Cardinality(DOMAIN neighbor_beliefs)
    /\ dpc' = "idle"
    /\ UNCHANGED <<agentVars, windowVars, neighbor_beliefs, local_risk,
                   learnVars, base_interval, clientVars, mainVars, msgs,
                   last_msg, published>>

\* the self.disconnect() call of _handle_rejection and of SHUTDOWN
HandlerDisconnect ==
    /\ dpc = "disconnect"
    /\ pc \notin Terminated
    /\ disconnect
    /\ dpc' = "idle"
    /\ UNCHANGED <<agentVars, brainVars, mainVars, msgs, last_msg>>

\* -------------------------------------------------------------------- spec
Next ==
    \/ WillSet
    \/ Connect
    \/ ConnectReady
    \/ ConnectTimeout
    \/ RunStart
    \/ WaitPoll
    \/ WaitExit
    \/ WaitCheck
    \/ LoopCheck
    \/ TickMeasure
    \/ PublishData
    \/ PublishBelief
    \/ PublishAlert
    \/ Adapt
    \/ Finally
    \/ FinallyExc
    \/ Interrupt
    \/ OnConnect
    \/ OnConnectAnnounce
    \/ OnDisconnect
    \/ Deliver
    \/ BeliefCount
    \/ HandlerDisconnect

Spec == Init /\ [][Next]_vars

\* the steps of the main thread that need no event from outside: every sleep
\* of the code ends, and the thread keeps being scheduled
MainStep ==
    \/ WillSet
    \/ Connect
    \/ ConnectReady
    \/ ConnectTimeout
    \/ RunStart
    \/ WaitPoll
    \/ WaitExit
    \/ WaitCheck
    \/ LoopCheck
    \/ TickMeasure
    \/ PublishData
    \/ PublishBelief
    \/ PublishAlert
    \/ Adapt
    \/ Finally
    \/ FinallyExc

\* the agent with a main thread that is never starved; nothing is assumed of
\* the network thread, of the broker or of the operator
SpecFair == Spec /\ WF_vars(MainStep)

\* --------------------------------------------------- a monitor that teaches
\* The same agent under a monitor that sends assignments, feedback and
\* reset_learning and nothing else: no message stops the agent or makes a
\* tick raise, which leaves room for the three messages that it takes to
\* bring the sensitivity two steps away from 1.0.
LearningMsgs ==
    AssignMsgs \cup FeedbackMsgs
    \cup { m \in ControlMsgs : m.command = "reset_learning" }

DeliverLearning == \E m \in LearningMsgs : DispatchWithin(m, MaxLearnMsgs)

NextTeach ==
    \/ WillSet
    \/ Connect
    \/ ConnectReady
    \/ ConnectTimeout
    \/ RunStart
    \/ WaitPoll
    \/ WaitExit
    \/ WaitCheck
    \/ LoopCheck
    \/ TickMeasure
    \/ PublishData
    \/ PublishBelief
    \/ PublishAlert
    \/ Adapt
    \/ Finally
    \/ Interrupt
    \/ OnConnect
    \/ OnConnectAnnounce
    \/ DeliverLearning

SpecTeach == Init /\ [][NextTeach]_vars

\* ---------------------------------------------------------- the brain alone
\* A SensorBrain whose methods are called directly, in any order; the Sensor
\* that owns it stays as constructed.
sensorVars == <<agentVars, clientVars, mainVars, dispVars, published>>

\* a second sample for the brain alone: colder, more humid, 10 hPa lower
BrainSamples ==
    Samples \cup
    { [temperature_c |-> -130, pressure_hpa |-> 9900, humidity_pct |-> 90] }

BeliefRisks == {JNum(100), JNum(400)}
FeedbackTypes == {"false_alarm", "missed_event", "correct", NoneVal}

InitBrain ==
    /\ Init
    /\ site = NoneVal

\* add_measurement(temp, pressure, humidity), at most limit times
BrainAddFrom(samples, limit) ==
    /\ Len(sampled) < limit
    /\ \E m \in samples :
         /\ temp_history' = DequeAppend(temp_history, m.temperature_c)
         /\ pressure_history' = DequeAppend(pressure_history, m.pressure_hpa)
         /\ humidity_history' = DequeAppend(humidity_history, m.humidity_pct)
         /\ sampled' = Append(sampled, m)
    /\ UNCHANGED <<sensorVars, neighbor_beliefs, local_risk, learnVars,
                   active_neighbors_count, base_interval>>

BrainAddMeasurement(limit) == BrainAddFrom(BrainSamples, limit)

AddMeasurement == BrainAddMeasurement(MaxBrainAdds)
AddMeasurementLong == BrainAddMeasurement(MaxAdds)

\* calculate_local_risk()
CalculateLocalRisk ==
    /\ local_risk' = calculate_local_risk(temp_history, pressure_history,
                          humidity_history, sensitivity, local_risk).stored
    /\ UNCHANGED <<sensorVars, windowVars, neighbor_beliefs, learnVars,
                   active_neighbors_count, base_interval>>

\* update_neighbor_belief(id, risk)
UpdateNeighborBelief(id, risk) ==
    /\ neighbor_beliefs' = update_neighbor_belief(neighbor_beliefs, id, risk)
    /\ UNCHANGED <<sensorVars, windowVars, local_risk, learnVars,
                   active_neighbors_count, base_interval>>

UpdateAnyBelief ==
    \E id \in {OwnId, "meteo-2-200"} : \E risk \in BeliefRisks :
      UpdateNeighborBelief(id, risk)

\* process_feedback(feedback_type); the feedback that counts is bounded
ProcessFeedbackUpTo(kind, limit) ==
    /\ kind \in {"false_alarm", "missed_event"}
         => false_alarm_count + missed_event_count < limit
    /\ LET f == process_feedback(kind, sensitivity, false_alarm_count,
                                 missed_event_count)
       IN  /\ sensitivity' = f.sensitivity
           /\ false_alarm_count' = f.false_alarm_count
           /\ missed_event_count' = f.missed_event_count
    /\ UNCHANGED <<sensorVars, windowVars, neighbor_beliefs, local_risk,
                   active_neighbors_count, base_interval>>

ProcessFeedback(kind) == ProcessFeedbackUpTo(kind, MaxFeedback)

ProcessAnyFeedback == \E kind \in FeedbackTypes : ProcessFeedback(kind)

\* the reset_learning command of _handle_control_command, on the brain
ResetLearning ==
    /\ sensitivity' = InitSensitivity
    /\ false_alarm_count' = 0
    /\ missed_event_count' = 0
    /\ UNCHANGED <<sensorVars, windowVars, neighbor_beliefs, local_risk,
                   active_neighbors_count, base_interval>>

\* a short run of samples, with feedback and reset_learning
NextLearn ==
    \/ AddMeasurement
    \/ CalculateLocalRisk
    \/ ProcessAnyFeedback
    \/ ResetLearning

SpecLearn == InitBrain /\ [][NextLearn]_vars

\* a long run of samples, with neighbour beliefs
NextWindow ==
    \/ AddMeasurementLong
    \/ CalculateLocalRisk
    \/ UpdateAnyBelief

SpecWindow == InitBrain /\ [][NextWindow]_vars

\* samples on both sides of every threshold of the three risk factors: the
\* pressures give drops of 5.0 and of 5.1 hPa from 1000.0, the temperatures
\* and humidities lie at and next to 2, -10, 35 and 80, the pressures at and
\* next to 970
RiskSamples ==
    { [temperature_c |-> 20, pressure_hpa |-> 10000, humidity_pct |-> 80],
      [temperature_c |-> 19, pressure_hpa |-> 9950, humidity_pct |-> 81],
      [temperature_c |-> -100, pressure_hpa |-> 9949, humidity_pct |-> 50],
      [temperature_c |-> 351, pressure_hpa |-> 9700, humidity_pct |-> 50],
      [temperature_c |-> 350, pressure_hpa |-> 9699, humidity_pct |-> 50],
      [temperature_c |-> -101, pressure_hpa |-> 9949, humidity_pct |-> 85] }

AddMeasurementRisk == BrainAddFrom(RiskSamples, MaxRiskAdds)

\* the feedback that moves the sensitivity, a few times
ProcessSomeFeedback ==
    \E kind \in {"false_alarm", "missed_event"} :
      ProcessFeedbackUpTo(kind, MaxRiskFeedback)

\* a short run of samples around the thresholds, with feedback
NextRisk ==
    \/ AddMeasurementRisk
    \/ CalculateLocalRisk
    \/ ProcessSomeFeedback

SpecRisk == InitBrain /\ [][NextRisk]_vars

\* _handle_neighbor_belief called on the Sensor as constructed, for any
\* belief payload (the handler reads the payload and the brain only)
HandleBelief ==
    /\ dpc = "idle"
    /\ msgs < MaxBeliefCalls
    /\ \E m \in BeliefMsgs :
         /\ handle_neighbor_belief(m)
         /\ last_msg' = MsgClass(m)
    /\ msgs' = msgs + 1
    /\ UNCHANGED <<mainVars, published>>

\* the neighbour table fed by the belief handler and by the brain's method
NextPace ==
    \/ HandleBelief
    \/ BeliefCount
    \/ UpdateAnyBelief

SpecPace == InitBrain /\ [][NextPace]_vars

\* on_message called on the Sensor as constructed, with one payload that
\* every handler accepts and acts upon, on topics that hold no marker, one
\* marker, or two markers in either order
RoutedTopics ==
    { <<"weather", a, b, SensorType, "meteo-2-200">> :
        a, b \in {"reject", "assign", "belief", "feedback", "control", "data"} }

RoutedMsgs ==
    { [Blank EXCEPT !.topic = t, !.reason = "quota", !.sector = "sector2",
                    !.sensor_id = "meteo-2-200", !.local_risk = JNum(400),
                    !.type = "missed_event", !.command = "adjust_interval",
                    !.interval = JNum(2)] : t \in RoutedTopics }

Route(m) ==
    /\ dpc = "idle"
    /\ msgs < MaxRouted
    /\ on_message(m)
    /\ msgs' = msgs + 1
    /\ last_msg' = MsgClass(m)
    /\ UNCHANGED <<mainVars, published>>

RouteAny == \E m \in RoutedMsgs : Route(m)

NextRoute ==
    \/ RouteAny
    \/ BeliefCount
    \/ HandlerDisconnect

SpecRoute == InitBrain /\ [][NextRoute]_vars

\* ------------------------------------------------------------------ claims
PubIdx == 1..Len(published)
TelemetryPublished == \E i \in PubIdx : Kind(published[i]) \in Telemetry
OfflinePublished == \E i \in PubIdx : published[i].status = "offline"
AllNumeric(nb) == \A k \in DOMAIN nb : nb[k].tag = "num"

\* the step appends one publication of a kind in kinds
Publishes(kinds) ==
    /\ Len(published') = Len(published) + 1
    /\ Kind(published'[Len(published')]) \in kinds

\* C1: whenever should_alert() returns true the stored local_risk is at least
\* risk_threshold (0.6): in every reachable state of the brain, and for every
\* would_alert = true that a published belief carries.
C1_AlertNeedsLocalRisk ==
    /\ should_alert(local_risk, neighbor_beliefs) = "True"
         => local_risk >= RiskThreshold
    /\ \A i \in PubIdx :
         published[i].would_alert = "True" => published[i].risk >= RiskThreshold

\* should_alert() is true with neighbours in the table
C1_Witness ==
    /\ should_alert(local_risk, neighbor_beliefs) = "True"
    /\ DOMAIN neighbor_beliefs # {}
    /\ \E i \in PubIdx : published[i].would_alert = "True"

\* C2: should_alert() returns true exactly when local_risk >= 0.6 and the
\* table is empty or its arithmetic mean is >= 0.4 (sum >= 0.4 * n); with
\* local_risk >= 0.6 and a non-empty table of mean < 0.4 it returns false.
C2_ConsensusRule ==
    LET n == Cardinality(DOMAIN neighbor_beliefs)
        mean_ok == /\ AllNumeric(neighbor_beliefs)
                   /\ SumRisk(neighbor_beliefs, DOMAIN neighbor_beliefs)
                        >= ConsensusThreshold * n
        r == should_alert(local_risk, neighbor_beliefs)
    IN  /\ (r = "True") <=> (local_risk >= RiskThreshold /\ (n = 0 \/ mean_ok))
        /\ (local_risk >= RiskThreshold /\ n > 0
              /\ AllNumeric(neighbor_beliefs) /\ ~mean_ok) => r = "False"

\* a high local risk blocked by neighbours that disagree
C2_Witness ==
    /\ local_risk >= RiskThreshold
    /\ Cardinality(DOMAIN neighbor_beliefs) = 2
    /\ AllNumeric(neighbor_beliefs)
    /\ SumRisk(neighbor_beliefs, DOMAIN neighbor_beliefs)
         < ConsensusThreshold * 2
    /\ should_alert(local_risk, neighbor_beliefs) = "False"

\* C3: in every tick that ran to its end, an alert was published if and only
\* if the belief published in that tick carries would_alert = true.
C3_AlertIffWouldAlert ==
    \A i \in PubIdx :
      (Kind(published[i]) = "belief"
         /\ (published[i].tick <= ticks \/ pc = "adapt"))
      => ((published[i].would_alert = "True")
            <=> \E j \in PubIdx : /\ Kind(published[j]) = "alert"
                                  /\ published[j].tick = published[i].tick)

\* the agent was started with a site: connect() took the will's sector from
\* self.site, before any message could be received
StartedWithSite == will.sector # Pending

\* C4 as stated: data, belief or alert is published only after a valid sector
\* assignment was received, whatever the configuration.
C4_Original == TelemetryPublished => sector_assigned

\* C4 as amended: an agent started without a site publishes no data, belief
\* or alert before it has received a valid assignment, which gave it a
\* sector; an agent started with a site publishes without an assignment.
C4_NoTelemetryBeforeSector ==
    TelemetryPublished
      => (StartedWithSite \/ (sector_assigned /\ site \in Sectors))

\* an agent started without a site has published after its assignment
C4_Witness ==
    /\ TelemetryPublished
    /\ ~StartedWithSite
    /\ sector_assigned

\* C5: every step that publishes data, belief or alert starts in a state where
\* sector_assigned holds or a site is known, and the topic carries that site,
\* which is neither unset nor the placeholder "pending" (the monitor assigns
\* sectors among SITES).
C5_TelemetryOnKnownSector ==
    [][Publishes(Telemetry) =>
         /\ sector_assigned \/ site # NoneVal
         /\ published'[Len(published')].topic[3] = site
         /\ site \notin {NoneVal, Pending, Absent}]_vars

\* data published on the sector a later assignment gave, not the initial one
C5_Witness ==
    /\ StartedWithSite
    /\ \E i \in PubIdx : /\ Kind(published[i]) = "data"
                         /\ published[i].topic[3] = "sector2"

\* the latest message was a rejection and the agent has no sector; no message
\* is delivered after a rejection, which closes the session
RejectedWithoutSector ==
    /\ site = NoneVal
    /\ last_msg[1] = "reject"

\* C6: once an agent without a sector has taken a rejection, running is false
\* and stays false, it has no sector from then on, it has published no data,
\* belief or alert and never does, and when the handler has returned (or
\* run() has) the offline presence is published.

C6_RejectionPath ==
    /\ [](RejectedWithoutSector =>
            /\ ~running
            /\ ~TelemetryPublished
            /\ (dpc = "idle" \/ pc = "done") => OfflinePublished)
    /\ [][RejectedWithoutSector => RejectedWithoutSector']_vars

\* the rejection handler has returned for a well-formed rejection
C6_Witness ==
    /\ site = NoneVal
    /\ last_msg = <<"reject", "ok">>
    /\ dpc = "idle"
    /\ ~running
    /\ OfflinePublished

\* a step that is a call of disconnect()
DisconnectCall ==
    \/ HandlerDisconnect
    \/ Finally
    \/ FinallyExc
    \/ (WaitCheck /\ ~sector_assigned)

\* C7: a call of disconnect() after the offline presence was published
\* publishes nothing and changes no state of the agent or of its client.
C7_DisconnectIdempotent ==
    [][(DisconnectCall /\ OfflinePublished) =>
         UNCHANGED <<published, agentVars, brainVars, clientVars>>]_vars

\* C8: an agent that was connected and has stopped has published the offline
\* presence (disconnect() ran).
WasConnected == session \in {"open", "closing", "closed"}

C8_StopPublishesOffline ==
    (pc \in Terminated /\ WasConnected) => OfflinePublished

\* the step is the dispatch of a message of the class <<handler, payload>>
Dispatched(payload) == msgs' = msgs + 1 /\ last_msg'[2] = payload

C10_OwnBeliefSuppressed ==
    /\ [](OwnId \notin DOMAIN neighbor_beliefs)
    /\ [][Dispatched("echo")
            => /\ UNCHANGED <<neighbor_beliefs, active_neighbors_count>>
               /\ dpc' = "idle"]_vars

\* the agent's own belief came back while a neighbour is in the table
C10_Witness ==
    /\ last_msg = <<"belief", "echo">>
    /\ DOMAIN neighbor_beliefs # {}
    /\ active_neighbors_count = 1
    /\ \E i \in PubIdx : Kind(published[i]) = "belief"

\* C11: a call of update_neighbor_belief with the brain's own sensor_id is a
\* no-op: it leaves the neighbour table as it was.
C11_OwnIdNoOp ==
    [][\A risk \in BeliefRisks :
         UpdateNeighborBelief(OwnId, risk) => UNCHANGED neighbor_beliefs]_vars

\* C12: after any sequence of feedback (of any type) and of reset_learning,
\* sensitivity lies in [0.5, 1.5] (50 to 150 hundredths).
C12_SensitivityBounds == sensitivity >= 50 /\ sensitivity <= 150

\* the lower clamp has acted: a sixth false alarm at sensitivity 0.5
C12_Witness == sensitivity = 50 /\ false_alarm_count = 6

\* C13: after any sequence of add_measurement, calculate_local_risk, feedback
\* and reset_learning, local_risk lies in [0, 1] (0 to 1000 thousandths).
C13_LocalRiskBounds == local_risk >= 0 /\ local_risk <= 1000

\* the cap has acted: all three factors (1.0) at a sensitivity above 1.0
C13_Witness ==
    /\ local_risk = 1000
    /\ sensitivity > 100
    /\ RawRisk(temp_history, pressure_history, humidity_history) = 10

\* C14 as stated: no step makes false_alarm_count or missed_event_count
\* smaller than it was.
C14_Original ==
    [][/\ false_alarm_count' >= false_alarm_count
       /\ missed_event_count' >= missed_event_count]_vars

\* C14 as amended: reset_learning sets both counters to 0; no other step
\* makes either counter smaller than it was.
C14_CountersMonotone ==
    [][IF ResetLearning
       THEN false_alarm_count' = 0 /\ missed_event_count' = 0
       ELSE /\ false_alarm_count' >= false_alarm_count
            /\ missed_event_count' >= missed_event_count]_vars

\* both counters have grown under feedback
C14_Witness == false_alarm_count = 3 /\ missed_event_count = 3

\* C15: after k calls of add_measurement the three windows have the same
\* length min(k, N), N = history_size, and hold the most recent min(k, N)
\* samples in the order they were added.
C15_WindowsHoldRecent ==
    LET k == Len(sampled)
        n == IF k < HistorySize THEN k ELSE HistorySize
    IN  /\ Len(temp_history) = n
        /\ Len(pressure_history) = n
        /\ Len(humidity_history) = n
        /\ \A i \in 1..n :
             /\ temp_history[i] = sampled[k - n + i].temperature_c
             /\ pressure_history[i] = sampled[k - n + i].pressure_hpa
             /\ humidity_history[i] = sampled[k - n + i].humidity_pct

\* a full window has evicted its oldest sample, which differed from the next
C15_Witness ==
    /\ Len(sampled) > HistorySize
    /\ sampled[1] # sampled[2]
    /\ temp_history[1] = sampled[2].temperature_c

\* the place of a telemetry kind in a tick of publish_data
Rank(kind) == IF kind = "data" THEN 1 ELSE IF kind = "belief" THEN 2 ELSE 3

\* C16: the publications of one tick come in the order data, belief, alert:
\* a belief is published only after the data of its tick, an alert (which a
\* tick publishes only when should_alert() is true) only after the belief of
\* its tick, and a tick publishes each kind at most once.
C16_TickOrder ==
    \A j \in PubIdx :
      Kind(published[j]) \in Telemetry =>
        /\ \A i \in 1..(j - 1) :
             (Kind(published[i]) \in Telemetry
                /\ published[i].tick = published[j].tick)
             => Rank(Kind(published[i])) < Rank(Kind(published[j]))
        /\ Kind(published[j]) = "belief" =>
             \E i \in 1..(j - 1) : /\ Kind(published[i]) = "data"
                                   /\ published[i].tick = published[j].tick
        /\ Kind(published[j]) = "alert" =>
             \E i \in 1..(j - 1) : /\ Kind(published[i]) = "belief"
                                   /\ published[i].tick = published[j].tick

\* a tick has published data, belief and alert
C16_Witness ==
    \E i, j, k \in PubIdx :
      /\ i < j /\ j < k
      /\ published[i].tick = published[k].tick
      /\ published[j].tick = published[k].tick
      /\ Kind(published[i]) = "data"
      /\ Kind(published[j]) = "belief"
      /\ Kind(published[k]) = "alert"

\* C17: every alert carries a risk_level (the double calculate_local_risk
\* returned) no larger than the local_risk (that double rounded to three
\* decimals) of the belief published in the same tick.
C17_AlertRiskAtMostBelief ==
    \A i, j \in PubIdx :
      (/\ Kind(published[i]) = "belief"
       /\ Kind(published[j]) = "alert"
       /\ published[i].tick = published[j].tick)
      => \/ published[j].risk < published[i].risk
         \/ /\ published[j].risk = published[i].risk
            /\ published[j].err <= published[i].err

\* the step publishes the online presence
PublishesOnline ==
    /\ Publishes({"status"})
    /\ published'[Len(published')].status = "online"

\* C18: the online presence is published only in a state where the agent has
\* already subscribed to its rejection and assignment topics, and it goes out
\* on the topic of the site or of the placeholder "pending".
C18_SubscribeBeforeOnline ==
    [][PublishesOnline =>
         /\ reject_topic(OwnId) \in subscriptions
         /\ assign_sector_topic(OwnId) \in subscriptions
         /\ published'[Len(published')].topic =
              status_topic(IF site # NoneVal THEN site ELSE Pending,
                           SensorType, OwnId)]_vars

\* an agent without a site has announced itself on the placeholder sector
C18_Witness ==
    /\ \E i \in PubIdx : /\ published[i].status = "online"
                         /\ published[i].topic[3] = Pending
    /\ reject_topic(OwnId) \in subscriptions
    /\ assign_sector_topic(OwnId) \in subscriptions

\* C19: from the moment connect() opens the session a last will is
\* registered: retained, on the agent's presence topic (of the site it was
\* started with, or of "pending"), with status offline and reason
\* connection_lost; and it is registered before the session is opened.
C19_WillBeforeSession ==
    /\ [](session # "init" =>
            /\ will.retain = TRUE
            /\ will.status = "offline"
            /\ will.reason = "connection_lost"
            /\ will.sector \in Sectors \cup {Pending}
            /\ will.topic = status_topic(will.sector, SensorType, OwnId))
    /\ [][(session = "init" /\ session' # "init") => will # NoWill]_vars

\* the session is open under the will of an agent started without a site
C19_Witness ==
    /\ session = "open"
    /\ will.sector = Pending
    /\ will.retain = TRUE

\* run() has returned from the assignment wait on its timeout: the agent was
\* started without a site, was not rejected and has no assignment
TimedOut ==
    /\ pc = "done"
    /\ ~StartedWithSite
    /\ ~sector_assigned
    /\ running

\* C20: the assignment wait takes at most 60 polls; when it ends without a
\* valid assignment the agent calls disconnect(), which publishes the offline
\* presence, and run() returns; the agent has published no data, belief or
\* alert.
C20_AssignmentTimeout ==
    /\ [](/\ elapsed <= AssignTimeoutPolls
          /\ TimedOut => (OfflinePublished /\ ~TelemetryPublished
                            /\ loop = "stopped"))
    /\ [][(pc = "wait_check" /\ ~sector_assigned /\ pc' \notin {pc, "crashed"})
            => /\ pc' = "done"
               /\ Publishes({"status"})
               /\ published'[Len(published')].status = "offline"
               /\ ~TelemetryPublished']_vars

\* the wait ran out with no message received at all
C20_Witness ==
    /\ TimedOut
    /\ last_msg[1] = "none"
    /\ OfflinePublished

\* C21: when connect() fails on its 5 s timeout, the session it started is
\* torn down before the error is raised: the network loop is stopped and the
\* client is disconnected.
C21_TimeoutTearsDown ==
    [][ConnectTimeout =>
         /\ loop' = "stopped"
         /\ session' \notin {"connecting", "open"}]_vars

\* the four per-sector topics of a sector: control-single, control-group,
\* the neighbour beliefs of the sector, feedback
SectorTopics(s) ==
    { ctrl_one_topic(s, SensorType, OwnId),
      ctrl_group_topic(s, SensorType),
      belief_site_topic(s, SensorType),
      feedback_topic(s, SensorType, OwnId) }

\* C22: the handler of a valid assignment {sector: S} leaves site = S,
\* sector_assigned = true and the agent subscribed to the four per-sector
\* topics of S; an assignment whose sector is missing or empty (or whose
\* payload is no JSON) leaves site, sector_assigned and the subscriptions as
\* they were.
C22_AssignmentEffect ==
    [][(msgs' = msgs + 1 /\ last_msg'[1] = "assign") =>
         \A m \in AssignMsgs :
           Dispatch(m) =>
             IF m.json /\ m.sector \in Sectors
             THEN /\ site' = m.sector
                  /\ sector_assigned'
                  /\ SectorTopics(m.sector) \subseteq subscriptions'
                  /\ subscriptions' = subscriptions \cup SectorTopics(m.sector)
             ELSE UNCHANGED <<site, sector_assigned, subscriptions>>]_vars

\* an agent that had a sector was assigned another one, and an empty
\* assignment after that changed nothing
C22_Witness ==
    /\ StartedWithSite
    /\ site = "sector2"
    /\ sector_assigned
    /\ SectorTopics("sector2") \subseteq subscriptions
    /\ last_msg = <<"assign", "malformed">>

\* the risk that C23 states, from the samples added so far: 0 below two
\* samples, else min(1, sensitivity * (0.4 P + 0.3 C + 0.3 E)), in thousandths
StatedRisk ==
    LET k == Len(sampled)
        P == /\ k >= 3
             /\ sampled[k - 2].pressure_hpa - sampled[k].pressure_hpa > 50
        C == sampled[k].temperature_c < 20 /\ sampled[k].humidity_pct > 80
        E == \/ sampled[k].temperature_c < -100
             \/ sampled[k].temperature_c > 350
             \/ sampled[k].pressure_hpa < 9700
        sum == (IF P THEN 4 ELSE 0) + (IF C THEN 3 ELSE 0)
               + (IF E THEN 3 ELSE 0)
    IN  IF k < 2 THEN 0 ELSE Min(1000, sensitivity * sum)

\* C23: calculate_local_risk() returns 0 with fewer than 2 samples; otherwise
\* it returns and stores min(1, sensitivity * (0.4 P + 0.3 C + 0.3 E)), P a
\* drop of more than 5 hPa over the last three pressures, C the latest
\* temperature below 2 with the latest humidity above 80, E the latest
\* temperature below -10 or above 35 or the latest pressure below 970.
C23_RiskFormula ==
    /\ [](LET r == calculate_local_risk(temp_history, pressure_history,
                                        humidity_history, sensitivity,
                                        local_risk)
          IN  /\ r.ret = StatedRisk
              /\ Len(sampled) >= 2 => r.stored = StatedRisk)
    /\ [][(CalculateLocalRisk /\ Len(sampled) >= 2)
            => local_risk' = StatedRisk]_vars

\* a drop of exactly 5 hPa over three samples left the pressure factor out:
\* the stored risk is 0.3 * 1.2, that of the cold and wet factor alone
C23_Witness ==
    /\ Len(sampled) = 3
    /\ sampled[1].pressure_hpa - sampled[3].pressure_hpa = 50
    /\ sampled[3].temperature_c = 19
    /\ sensitivity = 120
    /\ local_risk = 360

\* the interval that C24 states for a neighbour table of n entries
StatedInterval(n, base) ==
    IF n <= 2 THEN base
    ELSE IF n <= 5 THEN (3 * base) \div 2
    ELSE 2 * base

\* C24: whenever no handler is running, calculate_adaptive_interval(base) is
\* the value that the size of the neighbour table determines: base up to 2
\* entries, floor(1.5 * base) for 3 to 5, 2 * base from 6 on.
C24_IntervalFollowsTable ==
    dpc = "idle" =>
      \A base \in {2, DefaultInterval} :
        calculate_adaptive_interval(active_neighbors_count, base)
          = StatedInterval(Cardinality(DOMAIN neighbor_beliefs), base)

\* process_feedback applied to a sequence of feedback types, from the left
RECURSIVE FeedbackSeq(_, _)
FeedbackSeq(kinds, st) ==
    IF kinds = <<>> THEN st
    ELSE FeedbackSeq(Tail(kinds),
                     process_feedback(Head(kinds), st.sensitivity,
                                      st.false_alarm_count,
                                      st.missed_event_count))

\* C25: a false alarm lowers the sensitivity by 0.1, not below 0.5, and adds
\* one to false_alarm_count; a missed event raises it by 0.1, not above 1.5,
\* and adds one to missed_event_count; each leaves the other counter alone.
\* From 1.0, false_alarm, false_alarm, missed_event give 0.9 with counts 2
\* and 1.
C25_FeedbackSteps ==
    /\ [](FeedbackSeq(<<"false_alarm", "false_alarm", "missed_event">>,
                      [sensitivity |-> InitSensitivity,
                       false_alarm_count |-> 0, missed_event_count |-> 0])
            = [sensitivity |-> 90, false_alarm_count |-> 2,
               missed_event_count |-> 1])
    /\ [][/\ ProcessFeedback("false_alarm") =>
               /\ sensitivity' = (IF sensitivity - 10 < 50 THEN 50
                                  ELSE sensitivity - 10)
               /\ false_alarm_count' = false_alarm_count + 1
               /\ missed_event_count' = missed_event_count
          /\ ProcessFeedback("missed_event") =>
               /\ sensitivity' = (IF sensitivity + 10 > 150 THEN 150
                                  ELSE sensitivity + 10)
               /\ missed_event_count' = missed_event_count + 1
               /\ false_alarm_count' = false_alarm_count]_vars

\* the sequence of the claim has run, and nothing else
C25_Witness ==
    /\ sensitivity = 90
    /\ false_alarm_count = 2
    /\ missed_event_count = 1

\* process_feedback(correct) applied n times to a sensitivity
RECURSIVE CorrectTimes(_, _)
CorrectTimes(sens, n) ==
    IF n = 0 THEN sens
    ELSE CorrectTimes(process_feedback("correct", sens, 0, 0).sensitivity,
                      n - 1)

\* the distance to 1.0, in hundredths, and the applications the claim allows
Distance(sens) == IF sens < 100 THEN 100 - sens ELSE sens - 100
StepsAllowed(sens) == (Distance(sens) + 4) \div 5

\* sensitivities that no feedback reaches from 1.0, off the grid of 0.05
OffGrid == {52, 97, 103, 148}

\* C26: a correct prediction moves the sensitivity toward 1.0 by 0.05 and
\* never across it, changing no counter; from any sensitivity s0 in
\* [0.5, 1.5] (the one reached, or one off the grid), ceil(|1.0 - s0| / 0.05)
\* applications reach exactly 1.0, and further ones stay there.
C26_CorrectConverges ==
    /\ [](\A s0 \in {sensitivity} \cup OffGrid :
            /\ CorrectTimes(s0, StepsAllowed(s0)) = 100
            /\ CorrectTimes(s0, StepsAllowed(s0) + 1) = 100
            /\ \A n \in 0..StepsAllowed(s0) :
                 /\ s0 <= 100 => CorrectTimes(s0, n) <= 100
                 /\ s0 >= 100 => CorrectTimes(s0, n) >= 100)
    /\ [][ProcessFeedback("correct") =>
            /\ Distance(sensitivity') =
                 (IF Distance(sensitivity) < 5 THEN 0
                  ELSE Distance(sensitivity) - 5)
            /\ (sensitivity <= 100) = (sensitivity' <= 100)
                 \/ sensitivity' = 100
            /\ UNCHANGED <<false_alarm_count, missed_event_count>>]_vars

\* a correct prediction has taken back half of one false alarm
C26_Witness ==
    /\ sensitivity = 95
    /\ false_alarm_count = 1
    /\ missed_event_count = 0

\* the markers in the order C27 gives, and the first of them that a topic
\* holds ("none" when it holds none)
MarkerOrder == <<"reject", "assign", "belief", "feedback", "control">>

FirstMarker(topic) ==
    LET found == { i \in 1..Len(MarkerOrder) :
                     TopicContains(topic, MarkerOrder[i]) }
    IN  IF found = {} THEN "none"
        ELSE MarkerOrder[CHOOSE i \in found : \A j \in found : i <= j]

\* what a step shows of the one handler that ran on the payload of
\* RoutedMsgs, everything the other handlers write being unchanged
HandlerEffect(h) ==
    IF h = "reject"
    THEN /\ ~running'
         /\ UNCHANGED <<site, sector_assigned, publish_interval, brainVars,
                        subscriptions>>
    ELSE IF h = "assign"
    THEN /\ site' = "sector2" /\ sector_assigned'
         /\ UNCHANGED <<running, publish_interval, brainVars>>
    ELSE IF h = "belief"
    THEN /\ "meteo-2-200" \in DOMAIN neighbor_beliefs'
         /\ UNCHANGED <<agentVars, learnVars, subscriptions>>
    ELSE IF h = "feedback"
    THEN /\ missed_event_count' = missed_event_count + 1
         /\ UNCHANGED <<agentVars, neighbor_beliefs, subscriptions>>
    ELSE IF h = "control"
    THEN /\ publish_interval' = JNum(2)
         /\ UNCHANGED <<site, sector_assigned, running, brainVars,
                        subscriptions>>
    ELSE UNCHANGED <<agentVars, brainVars, subscriptions>>

\* C27: a message is handled by one handler at most, that of the first of
\* the markers reject, assign, belief, feedback, control (in this order) that
\* its topic holds; on a topic that holds none, no state of the agent or of
\* its brain changes.
C27_FirstMarkerWins ==
    [][msgs' = msgs + 1 =>
         \A m \in RoutedMsgs :
           Route(m) => HandlerEffect(FirstMarker(m.topic))]_vars

\* a feedback was handled, then a rejection stopped the agent without
\* anything else having run
C27_Witness ==
    /\ msgs = 2
    /\ last_msg[1] = "reject"
    /\ ~running
    /\ missed_event_count = 1
    /\ site = NoneVal
    /\ DOMAIN neighbor_beliefs = {}
    /\ publish_interval = JNum(DefaultInterval)

\* the step is the dispatch of a reset_learning command
ResetDispatched ==
    \E m \in ControlMsgs :
      /\ m.command = "reset_learning"
      /\ DispatchWithin(m, MaxLearnMsgs)

\* C28: the control command reset_learning sets the sensitivity to 1.0 and
\* both counters to 0, and leaves the windows, the neighbour table,
\* local_risk, the sector and publish_interval as they were.
C28_ResetLearningFrame ==
    [][(msgs' = msgs + 1 /\ last_msg' = <<"control", "ok">> /\ ResetDispatched)
         => /\ sensitivity' = 100
            /\ false_alarm_count' = 0
            /\ missed_event_count' = 0
            /\ UNCHANGED <<temp_history, pressure_history, humidity_history,
                           neighbor_beliefs, local_risk, site, sector_assigned,
                           publish_interval>>]_vars

\* a reset came after a belief was published at sensitivity 1.1 (0.6 * 1.1):
\* the learning state is back at its start, the stored risk is still 0.66
C28_Witness ==
    /\ last_msg = <<"control", "ok">>
    /\ sensitivity = 100
    /\ false_alarm_count = 0
    /\ missed_event_count = 0
    /\ local_risk = 660
    /\ Len(temp_history) = 2

\* C30: every value stored in the neighbour table is a number in [0, 1]
\* (0 to 1000 thousandths), whatever the local_risk field of the beliefs
\* received.
C30_TableHoldsRisks ==
    \A k \in DOMAIN neighbor_beliefs :
      /\ neighbor_beliefs[k].tag = "num"
      /\ neighbor_beliefs[k].v >= 0
      /\ neighbor_beliefs[k].v <= 1000

\* C29: once running is false, the agent eventually reaches Terminated, and
\* disconnect() has been executed by then (the offline presence is
\* published).
C29_StopLeadsToTerminated ==
    ~running ~> (pc \in Terminated /\ OfflinePublished)

\* once running is false, the main thread eventually stops
C29_StopLeadsToExit == ~running ~> (pc \in Terminated)

\* C31: the dispatch of a belief message that lacks sensor_id or local_risk
\* (or is no JSON) adds no entry to the neighbour table and changes none, and
\* the handler goes on to no update of active_neighbors_count.
C31_IncompleteBeliefDropped ==
    [][(Dispatched("malformed") /\ last_msg'[1] = "belief")
         => /\ UNCHANGED <<neighbor_beliefs, active_neighbors_count>>
            /\ dpc' = "idle"]_vars

\* C32: no data, belief or alert message is published after an offline
\* presence, whatever the position of the main thread when the network
\* thread runs disconnect().
C32_NothingAfterOffline ==
    \A i, j \in PubIdx :
      (i < j /\ published[i].status = "offline")
        => Kind(published[j]) \notin Telemetry

\* C33: when the main thread is about to run calculate_adaptive_interval,
\* active_neighbors_count is the number of entries of the neighbour table,
\* wherever the network thread stands in a belief handler.
C33_CountIsTableSize ==
    pc = "adapt" =>
      active_neighbors_count = Cardinality(DOMAIN neighbor_beliefs)

\* C34: publish_interval is a positive integer in every reachable state,
\* whatever the interval field of the adjust_interval commands received.
C34_IntervalPositive ==
    /\ publish_interval.tag = "num"
    /\ publish_interval.v \in Nat \ {0}

\* neighbour tables of every kind: empty, below and above the consensus
\* threshold, and holding a value that is no number
SomeTables ==
    { EmptyTable,
      update_neighbor_belief(EmptyTable, "meteo-2-200", JNum(100)),
      update_neighbor_belief(EmptyTable, "meteo-2-200", JNum(1000)),
      update_neighbor_belief(EmptyTable, "meteo-2-200", JBad) }

\* C35: a calculate_local_risk that runs while the sensitivity is below 0.6
\* returns and stores a risk below 0.6, whatever the windows hold, and
\* should_alert is then false whatever the neighbour table holds: the tick
\* publishes no alert.
C35_LowSensitivityNoAlert ==
    [][(CalculateLocalRisk /\ sensitivity < 60)
         => /\ calculate_local_risk(temp_history, pressure_history,
                   humidity_history, sensitivity, local_risk).ret
                 < RiskThreshold
            /\ local_risk' < RiskThreshold
            /\ \A nb \in SomeTables \cup {neighbor_beliefs} :
                 should_alert(local_risk', nb) = "False"]_vars

\* after five false alarms the sensitivity is 0.5, and the risk of a window
\* in which all three factors fire is 0.5
C35_Witness ==
    /\ sensitivity = 50
    /\ false_alarm_count = 5
    /\ missed_event_count = 0
    /\ Len(temp_history) = 3
    /\ RawRisk(temp_history, pressure_history, humidity_history) = 10
    /\ local_risk = 500

\* C36: while the agent has no sector, every offline presence it has
\* published is on the topic of its last will and of its online
\* announcement, and carries the same placeholder sector "pending".
C36_OfflineOnPendingTopic ==
    site = NoneVal =>
      \A i \in PubIdx :
        published[i].status = "offline" =>
          /\ will.sector = Pending
          /\ published[i].sector = will.sector
          /\ published[i].topic = will.topic
          /\ \A j \in PubIdx :
               published[j].status = "online"
                 => published[j].topic = published[i].topic

\* C37: the agent is subscribed to the belief topic of no sector but its
\* current one, and a step that changes the sector leaves no belief of the
\* sector it had before in the neighbour table.
C37_TableOfCurrentSector ==
    /\ [](\A s \in Sectors :
            belief_site_topic(s, SensorType) \in subscriptions => s = site)
    /\ [][site' # site => neighbor_beliefs' = EmptyTable]_vars

=============================================================================
